---- MODULE Spec2Model ----
(***************************************************************************)
(* Model of script/update_plugin.py: PluginUpdater.update_all_plugins and  *)
(* the per-plugin reconciliation of process_plugin, stepped through the    *)
(* network, file-system and git calls the code makes.                      *)
(***************************************************************************)
EXTENDS Integers, Sequences, FiniteSets, TLC

\* ------------------------------------------------------------------ bounds
\* number of invocations of the script that are followed
MaxRuns == 2
\* longest artifact body, in chunks of iter_content
MaxChunks == 2

\* ----------------------------------------------------------- value domains
\* Python None, and an absent file
None == <<>>

Some(x) == <<x>>

\* plugin names, and the version strings their manifests carry
Names == {"foo", "bar"}

Versions == {"1.0", "2.0"}
\* second command line argument; the workflow passes "plugins"
TargetDirs == {"plugins", "registry"}
\* file names of the source directory in lexicographic order
LexOrder == <<"a.json", "b.json">>

\* the source directories that are studied: two plugins, and two source
\* files that declare the same plugin name
SourceDirs ==
    { { [file |-> "a.json", name |-> "foo", manifestUrl |-> "U/a"],
        [file |-> "b.json", name |-> "bar", manifestUrl |-> "U/b"] },
      { [file |-> "a.json", name |-> "foo", manifestUrl |-> "U/a"],
        [file |-> "b.json", name |-> "foo", manifestUrl |-> "U/b"] } }

\* dict.get(key, default)
Get(d, k, default) == IF k \in DOMAIN d THEN d[k] ELSE default

EmptyDict == [k \in {} |-> ""]

\* a manifest as published upstream; description and homepage are optional:
\* foo publishes both, bar publishes neither
MakeManifest(n, v) ==
    LET base == [name |-> n, version |-> v,
                 downloadUrl |-> "D/" \o n \o "/" \o v]
    IN IF n = "foo"
       THEN [description |-> "about foo", homepage |-> "h/foo"] @@ base
       ELSE base

Manifests == { MakeManifest(n, v) : n \in Names, v \in Versions }

\* responses to the GET of a manifest URL: a status, "error" for a transport
\* exception, and the parsed body (None when the body is not JSON)
AllManifestResponses ==
    { [status |-> "404", json |-> None],
      [status |-> "error", json |-> None],
      [status |-> "200", json |-> None],
      [status |-> "200", json |-> Some(EmptyDict)] }
    \cup { [status |-> "200", json |-> Some(m)] : m \in Manifests }

\* artifact bodies, as sequences of chunks
Bodies == UNION { [1..n -> {1}] : n \in 1..MaxChunks }

\* responses to the GET of a download URL: delivered is the number of chunks
\* that arrive before the stream ends or breaks
AllArtifactResponses ==
    { [status |-> "404", body |-> <<>>, delivered |-> 0],
      [status |-> "error", body |-> <<>>, delivered |-> 0] }
    \cup UNION { { [status |-> "200", body |-> b, delivered |-> k] :
                     k \in 0..Len(b) } : b \in Bodies }

\* outcome of writing a record file: written, open() raises, or the dump
\* raises after open() has truncated the file
WriteFaults == {"none", "open", "dump"}

\* exit status of git commit
GitOutcomes == {"ok", "fail"}

\* ------------------------------------------------------------ pure helpers
Prefix(s, k) == SubSeq(s, 1, k)

RECURSIVE Digest(_)
\* stand-in for hashlib.sha256 over the file's blocks: a polynomial hash that
\* is injective on the bodies of the model
Digest(bytes) ==
    IF bytes = <<>> THEN 7
    ELSE (Digest(Prefix(bytes, Len(bytes) - 1)) * 31 + bytes[Len(bytes)] + 1) % 65536

\* calculate_sha256(file_path)
calculate_sha256(file) == Digest(file[1])

Rank(f) == CHOOSE k \in 1..Len(LexOrder) : LexOrder[k] = f

RECURSIVE SortedFilesDescending(_)
\* the source files in descending order
SortedFilesDescending(S) ==
    IF S = {} THEN <<>>
    ELSE LET m == CHOOSE x \in S : \A y \in S : Rank(x.file) >= Rank(y.file)
         IN <<m>> \o SortedFilesDescending(S \ {m})

RECURSIVE SortedFiles(_)
\* sorted(self.source_dir.glob("*.json"))
SortedFiles(S) ==
    IF S = {} THEN <<>>
    ELSE LET m == CHOOSE x \in S : \A y \in S : Rank(x.file) <= Rank(y.file)
         IN <<m>> \o SortedFiles(S \ {m})

\* download_manifest(manifest_url) on a response
download_manifest(resp) ==
    IF resp.status = "error" THEN None
    ELSE IF resp.status # "200" THEN None
    ELSE resp.json

\* Python truthiness of the optional dict: `if not manifest` / `if manifest`
Truthy(m) == m # None /\ DOMAIN m[1] # {}

\* content of a record file: the dumped dict, or what a failed dump leaves
Json(d) == [ok |-> TRUE, data |-> d]

Truncated == [ok |-> FALSE, data |-> EmptyDict]

\* every version reported as changed
check_version_changed_always(file, new_version) == TRUE

\* every plugin reported as unchanged
check_version_changed_never(file, new_version) == FALSE

\* a record file that cannot be read reported as unchanged
check_version_changed_unreadable_same(file, new_version) ==
    IF file = None THEN TRUE
    ELSE IF ~file[1].ok THEN FALSE
    ELSE Get(file[1].data, "version", "") # new_version

\* only a plugin without record reported as changed
check_version_changed_new_only(file, new_version) == file = None

\* check_version_changed(plugin_name, new_version) against the record file
check_version_changed(file, new_version) ==
    IF file = None THEN TRUE
    ELSE IF ~file[1].ok THEN TRUE
    ELSE Get(file[1].data, "version", "") # new_version

\* the index entry built in update_all_plugins
IndexEntry(m) ==
    [name |-> Get(m, "name", "None"),
     desc |-> Get(m, "description", ""),
     homepage |-> Get(m, "homepage", "")]

\* the commit message without the version
PluginLabelNoVersion(n, v) == n \o ": Update"

\* the commit message of a plugin update
PluginLabel(n, v) == n \o ": Update to version " \o v

\* the commit message of the index
IndexLabel == "Update plugin index"

\* paths as sequences of components
IndexPath(dir) == <<dir, "index.json">>

\* the path the commit check looks for in the output of git status
Needle == <<"plugins", "index.json">>

\* needle in line, for paths: the needle's components occur contiguously
Contains(line, needle) ==
    \E k \in 0..(Len(line) - Len(needle)) :
        SubSeq(line, k + 1, k + Len(needle)) = needle

\* ------------------------------------------------------------------- state
VARIABLES
    \* inputs of the invocation
    targetDir,          \* sys.argv[2]
    source_dir,         \* the source files found by glob
    env,                \* None, or Some(responses pinned for every request)
    \* update_all_plugins
    run,                \* invocations started so far
    pc,                 \* position of the run / state of the current plugin
    files,              \* the sorted list the loop iterates
    i,                  \* loop position in files
    index_data,         \* the list of index entries being accumulated
    \* process_plugin locals
    manifest,           \* None or Some(dict)
    version_changed,
    ret_manifest,       \* second component of the returned tuple
    \* file system
    records,            \* target_dir/<name>.json per name: None or Some(content)
    tmp,                \* tmp.zip: None or Some(bytes)
    indexFile,          \* target_dir/index.json: None or Some(list)
    \* git, for the index path: committed and staged content
    head,
    staged,
    changes,            \* labels of the commits attempted in this run
    \* history variables
    served,             \* the artifact response the current plugin received
    provenance,         \* per name: what the step that wrote the record fetched
    outcome,            \* per loop position: which return the plugin took
    fetched,            \* per loop position: the manifest fetched in this run
    step,               \* what the current plugin has done so far
    atRunStart,         \* records, index file and git state when the run began
    indexDiffered,      \* whether the written index differed from head
    commitFailed        \* labels of the commits of this run that git refused

vars == <<targetDir, source_dir, env, run, pc, files, i, index_data,
          manifest, version_changed, ret_manifest, records, tmp, indexFile,
          head, staged, changes, served, provenance, outcome, fetched, step,
          atRunStart, indexDiffered, commitFailed>>

inputs == <<targetDir, source_dir, env>>
locals == <<manifest, version_changed, ret_manifest>>

disk == <<records, tmp, indexFile>>

git == <<head, staged, commitFailed>>

FileNames == {LexOrder[k] : k \in 1..Len(LexOrder)}

PluginStates == {"Fetching", "Validating", "ComparingVersion", "Unchanged",
                 "Downloading", "Hashing", "Persisting", "Recording",
                 "Done", "Failed", "EndProcessing"}

Fates == {"pending", "fetch_failed", "mismatch", "unchanged",
          "download_failed", "io_failed", "updated"}

\* wrote: the record file was written; downloaded: the artifact was
\* requested; before, nchanges, index: the records, the number of changes and
\* index_data when the plugin's processing began
FreshStep == [wrote |-> FALSE, downloaded |-> FALSE,
              before |-> [n \in Names |-> None], nchanges |-> 0, index |-> <<>>]

source == files[i]

\* the responses the environment may give to the current plugin's requests
ManifestResponses ==
    IF env = None THEN AllManifestResponses ELSE {env[1][source.file].manifest}
ArtifactResponses ==
    IF env = None THEN AllArtifactResponses ELSE {env[1][source.file].artifact}
RecordWriteFaults ==
    IF env = None THEN WriteFaults ELSE {env[1][source.file].write}

\* the responses one source file can be pinned to; the fields its plugin's
\* path cannot reach are fixed
Scenarios(src) ==
    { s \in [manifest : AllManifestResponses, artifact : AllArtifactResponses,
              write : WriteFaults] :
        /\ (\/ ~Truthy(download_manifest(s.manifest))
            \/ Get(download_manifest(s.manifest)[1], "name", "None") # src.name)
              => s.artifact = [status |-> "404", body |-> <<>>, delivered |-> 0]
        /\ (s.artifact.status # "200" \/ s.artifact.delivered < Len(s.artifact.body))
              => s.write = "none" }

\* every pinning of the responses of a source directory, keyed by file name
Pinnings(dir) ==
    { f \in [ {src.file : src \in dir} ->
                UNION { Scenarios(src) : src \in dir } ] :
        \A src \in dir : f[src.file] \in Scenarios(src) }

Init ==
    /\ targetDir \in TargetDirs
    /\ source_dir \in SourceDirs
    /\ env = None
    /\ run = 0
    /\ pc = "idle"
    /\ files = <<>>
    /\ i = 0
    /\ index_data = <<>>
    /\ manifest = None
    /\ version_changed = FALSE
    /\ ret_manifest = None
    /\ records = [n \in Names |-> None]
    /\ tmp = None
    /\ indexFile = None
    /\ head = None
    /\ staged = None
    /\ changes = <<>>
    /\ served = None
    /\ provenance = [n \in Names |-> None]
    /\ outcome = [f \in FileNames |-> "pending"]
    /\ fetched = [f \in FileNames |-> None]
    /\ step = FreshStep
    /\ atRunStart = [records |-> records, indexFile |-> None, head |-> None,
                     staged |-> None]
    /\ indexDiffered = FALSE
    /\ commitFailed = {}

\* the same start, with the response to every request pinned: every run of a
\* behaviour then meets the same upstream and the same write faults
InitPinned ==
    /\ targetDir \in TargetDirs
    /\ source_dir \in SourceDirs
    /\ env \in { Some(f) : f \in Pinnings(source_dir) }
    /\ run = 0
    /\ pc = "idle"
    /\ files = <<>>
    /\ i = 0
    /\ index_data = <<>>
    /\ manifest = None
    /\ version_changed = FALSE
    /\ ret_manifest = None
    /\ records = [n \in Names |-> None]
    /\ tmp = None
    /\ indexFile = None
    /\ head = None
    /\ staged = None
    /\ changes = <<>>
    /\ served = None
    /\ provenance = [n \in Names |-> None]
    /\ outcome = [f \in FileNames |-> "pending"]
    /\ fetched = [f \in FileNames |-> None]
    /\ step = FreshStep
    /\ atRunStart = [records |-> records, indexFile |-> None, head |-> None,
                     staged |-> None]
    /\ indexDiffered = FALSE
    /\ commitFailed = {}

\* ----------------------------------------------------------------- actions
\* update_all_plugins up to the first iteration of the loop
StartRun ==
    /\ pc = "idle"
    /\ run < MaxRuns
    /\ run' = run + 1
    /\ files' = SortedFiles(source_dir)
    /\ index_data' = <<>>
    /\ i' = 1
    /\ pc' = IF files' = <<>> THEN "Finalizing" ELSE "Fetching"
    /\ manifest' = None
    /\ version_changed' = FALSE
    /\ ret_manifest' = None
    /\ changes' = <<>>
    /\ served' = None
    /\ outcome' = [f \in FileNames |-> "pending"]
    /\ fetched' = [f \in FileNames |-> None]
    /\ step' = [FreshStep EXCEPT !.before = records]
    /\ atRunStart' = [records |-> records, indexFile |-> indexFile, head |-> head,
                      staged |-> staged]
    /\ indexDiffered' = FALSE
    /\ commitFailed' = {}
    /\ UNCHANGED <<inputs, disk, head, staged, provenance>>

\* process_plugin: read the source file and download the manifest
FetchManifest ==
    /\ pc = "Fetching"
    /\ \E resp \in ManifestResponses :
         LET m == download_manifest(resp) IN
         /\ manifest' = m
         /\ IF ~Truthy(m)
            THEN /\ pc' = "Failed"
                 /\ outcome' = [outcome EXCEPT ![source.file] = "fetch_failed"]
                 /\ UNCHANGED fetched
            ELSE /\ pc' = "Validating"
                 /\ fetched' = [fetched EXCEPT ![source.file] = m]
                 /\ UNCHANGED outcome
    /\ ret_manifest' = None
    /\ UNCHANGED <<inputs, run, files, i, index_data, version_changed, disk,
                   git, changes, served, provenance, step, atRunStart,
                   indexDiffered>>

manifest_name == Get(manifest[1], "name", "None")

new_version == Get(manifest[1], "version", "None")

\* the name check left out
name_mismatch_ignored(mname, sname) == FALSE

\* `if manifest_name != source_name`
name_mismatch(mname, sname) == mname # sname

\* process_plugin: the name check
Validate ==
    /\ pc = "Validating"
    /\ IF name_mismatch(manifest_name, source.name)
       THEN /\ pc' = "Failed"
            /\ outcome' = [outcome EXCEPT ![source.file] = "mismatch"]
       ELSE /\ pc' = "ComparingVersion"
            /\ UNCHANGED outcome
    /\ UNCHANGED <<inputs, run, files, i, index_data, locals, disk, git,
                   changes, served, provenance, fetched, step, atRunStart,
                   indexDiffered>>

\* process_plugin: the version check
CompareVersion ==
    /\ pc = "ComparingVersion"
    /\ version_changed' = check_version_changed(records[manifest_name], new_version)
    /\ pc' = IF version_changed' THEN "Downloading" ELSE "Unchanged"
    /\ UNCHANGED <<inputs, run, files, i, index_data, manifest, ret_manifest,
                   disk, git, changes, served, provenance, outcome, fetched,
                   step, atRunStart, indexDiffered>>

\* process_plugin: return on an unchanged version
ReturnUnchanged ==
    /\ pc = "Unchanged"
    /\ ret_manifest' = manifest
    /\ pc' = "Done"
    /\ outcome' = [outcome EXCEPT ![source.file] = "unchanged"]
    /\ UNCHANGED <<inputs, run, files, i, index_data, manifest,
                   version_changed, disk, git, changes, served, provenance,
                   fetched, step, atRunStart, indexDiffered>>

\* a broken stream reported as a complete download
download_zip_partial_ok(resp, file) ==
    IF resp.status # "200"
    THEN [ok |-> FALSE, tmp |-> file]
    ELSE [ok |-> TRUE, tmp |-> Some(Prefix(resp.body, resp.delivered))]

\* the temporary file opened for appending instead of truncated
download_zip_append(resp, file) ==
    IF resp.status # "200"
    THEN [ok |-> FALSE, tmp |-> file]
    ELSE [ok |-> resp.delivered = Len(resp.body),
          tmp |-> Some((IF file = None THEN <<>> ELSE file[1])
                       \o Prefix(resp.body, resp.delivered))]

\* the status of the response not looked at
download_zip_any_status(resp, file) ==
    [ok |-> resp.delivered = Len(resp.body),
     tmp |-> Some(Prefix(resp.body, resp.delivered))]

\* download_zip(download_url): the result and the temporary file it leaves
download_zip(resp, file) ==
    IF resp.status # "200"
    THEN [ok |-> FALSE, tmp |-> file]
    ELSE [ok |-> resp.delivered = Len(resp.body),
          tmp |-> Some(Prefix(resp.body, resp.delivered))]

\* process_plugin: download the artifact
Download ==
    /\ pc = "Downloading"
    /\ \E resp \in ArtifactResponses :
         LET r == download_zip(resp, tmp) IN
         /\ tmp' = r.tmp
         /\ served' = Some(resp)
         /\ IF r.ok
            THEN /\ pc' = "Hashing"
                 /\ UNCHANGED outcome
            ELSE /\ pc' = "Failed"
                 /\ outcome' = [outcome EXCEPT ![source.file] = "download_failed"]
    /\ step' = [step EXCEPT !.downloaded = TRUE]
    /\ UNCHANGED <<inputs, run, files, i, index_data, locals, records,
                   indexFile, git, changes, provenance, fetched, atRunStart,
                   indexDiffered>>

\* the temporary file unlinked and the record saved without the digest
HashDeferred ==
    /\ pc = "Hashing"
    /\ IF tmp = None
       THEN /\ pc' = "Failed"
            /\ outcome' = [outcome EXCEPT ![source.file] = "io_failed"]
            /\ UNCHANGED tmp
       ELSE /\ tmp' = None
            /\ pc' = "Persisting"
            /\ UNCHANGED outcome
    /\ UNCHANGED <<inputs, run, files, i, index_data, locals, records,
                   indexFile, git, changes, served, provenance, fetched, step,
                   atRunStart, indexDiffered>>

\* process_plugin: hash the temporary file, attach the digest, unlink
Hash ==
    /\ pc = "Hashing"
    /\ IF tmp = None
       THEN /\ pc' = "Failed"
            /\ outcome' = [outcome EXCEPT ![source.file] = "io_failed"]
            /\ UNCHANGED <<manifest, tmp>>
       ELSE /\ manifest' = Some(("sha256" :> calculate_sha256(tmp)) @@ manifest[1])
            /\ tmp' = None
            /\ pc' = "Persisting"
            /\ UNCHANGED outcome
    /\ UNCHANGED <<inputs, run, files, i, index_data, version_changed,
                   ret_manifest, records, indexFile, git, changes, served,
                   provenance, fetched, step, atRunStart, indexDiffered>>

\* open(plugin_json_file, 'w') and json.dump under a write fault
write_record(file, data, fault) ==
    IF fault = "open" THEN file
    ELSE IF fault = "dump" THEN Some(Truncated)
    ELSE Some(Json(data))

\* process_plugin: save the plugin JSON
Persist ==
    /\ pc = "Persisting"
    /\ \E fault \in RecordWriteFaults :
         /\ records' = [records EXCEPT ![manifest_name] =
                            write_record(@, manifest[1], fault)]
         /\ IF fault = "none"
            THEN /\ pc' = "Recording"
                 /\ provenance' = [provenance EXCEPT ![manifest_name] =
                        Some([version |-> Get(fetched[source.file][1], "version", "None"),
                              body |-> served[1].body])]
                 /\ step' = [step EXCEPT !.wrote = TRUE]
                 /\ UNCHANGED outcome
            ELSE /\ pc' = "Failed"
                 /\ provenance' = IF fault = "dump"
                                  THEN [provenance EXCEPT ![manifest_name] = None]
                                  ELSE provenance
                 /\ outcome' = [outcome EXCEPT ![source.file] = "io_failed"]
                 /\ UNCHANGED step
    /\ UNCHANGED <<inputs, run, files, i, index_data, locals, tmp, indexFile,
                   git, changes, served, fetched, atRunStart, indexDiffered>>

\* git commit: everything staged becomes the committed state
git_commit(outcome_, h, st) == IF outcome_ = "ok" THEN st ELSE h

\* subprocess.run(..., check=True): a non-zero exit raises, and the except
\* clause of the caller returns nothing
run_git_checked(g, value) == IF g = "fail" THEN None ELSE value

\* subprocess.run(..., check=False): the caller goes on to `value` whatever
\* the exit status
run_git(g, value) == value

\* the labels of the commits git refused, after a commit with this outcome
failed_commits(g, label, failed) ==
    IF g = "fail" THEN failed \cup {label} ELSE failed

\* process_plugin: git add and git commit of the record, then return
Record ==
    /\ pc = "Recording"
    /\ IF version_changed
       THEN \E g \in GitOutcomes :
              /\ changes' = Append(changes, PluginLabel(manifest_name, new_version))
              /\ head' = git_commit(g, head, staged)
              /\ commitFailed' = failed_commits(g, PluginLabel(manifest_name, new_version),
                                                commitFailed)
              /\ ret_manifest' = run_git(g, manifest)
       ELSE /\ ret_manifest' = manifest
            /\ UNCHANGED <<changes, head, commitFailed>>
    /\ pc' = "Done"
    /\ outcome' = [outcome EXCEPT ![source.file] = "updated"]
    /\ UNCHANGED <<inputs, run, files, i, index_data, manifest,
                   version_changed, disk, staged, served, provenance, fetched,
                   step, atRunStart, indexDiffered>>

\* the loop body after process_plugin returned: add to the index
Collect ==
    /\ pc \in {"Done", "Failed"}
    /\ index_data' = IF Truthy(ret_manifest)
                     THEN Append(index_data, IndexEntry(ret_manifest[1]))
                     ELSE index_data
    /\ pc' = "EndProcessing"
    /\ UNCHANGED <<inputs, run, files, i, locals, disk, git, changes, served,
                   provenance, outcome, fetched, step, atRunStart,
                   indexDiffered>>

\* the loop passing over every second source file
AdvanceSkipping ==
    /\ pc = "EndProcessing"
    /\ i' = i + 2
    /\ pc' = IF i + 1 < Len(files) THEN "Fetching" ELSE "Finalizing"
    /\ manifest' = None
    /\ version_changed' = FALSE
    /\ ret_manifest' = None
    /\ served' = None
    /\ step' = [FreshStep EXCEPT !.before = records, !.nchanges = Len(changes),
                                  !.index = index_data]
    /\ UNCHANGED <<inputs, run, files, index_data, disk, git, changes,
                   provenance, outcome, fetched, atRunStart, indexDiffered>>

\* the loop moves to the next source file, or ends
Advance ==
    /\ pc = "EndProcessing"
    /\ i' = i + 1
    /\ pc' = IF i < Len(files) THEN "Fetching" ELSE "Finalizing"
    /\ manifest' = None
    /\ version_changed' = FALSE
    /\ ret_manifest' = None
    /\ served' = None
    /\ step' = [FreshStep EXCEPT !.before = records, !.nchanges = Len(changes),
                                  !.index = index_data]
    /\ UNCHANGED <<inputs, run, files, index_data, disk, git, changes,
                   provenance, outcome, fetched, atRunStart, indexDiffered>>

\* the entries of the previous index kept for the names this run did not list
write_index_merge(file, data) ==
    LET Listed(e) == \E k \in 1..Len(data) : data[k].name = e.name
        Unlisted(e) == ~Listed(e)
    IN  Some(data \o (IF file = None THEN <<>> ELSE SelectSeq(file[1], Unlisted)))

\* open(index_json_file, 'w') and json.dump(index_data)
write_index(file, data) == Some(data)

\* write index.json
WriteIndex ==
    /\ pc = "Finalizing"
    /\ indexFile' = write_index(indexFile, index_data)
    /\ pc' = "IndexStatus"
    /\ UNCHANGED <<inputs, run, files, i, index_data, locals, records, tmp,
                   git, changes, served, provenance, outcome, fetched, step,
                   atRunStart, indexDiffered>>

\* the paths git status --porcelain lists: the index path when its work tree,
\* staged and committed contents are not all the same, and a leftover
\* tmp.zip; record paths never contain the needle and are left out
git_status(dir, ixFile, st, h, tmpFile) ==
    (IF ixFile # None /\ ~(ixFile = st /\ st = h) THEN {IndexPath(dir)} ELSE {})
    \cup (IF tmpFile # None THEN {<<"tmp.zip">>} ELSE {})

\* the index committed whatever git status lists
index_in_status_always(stdout) == TRUE

\* `"plugins/index.json" in result.stdout`
index_in_status(stdout) == \E line \in stdout : Contains(line, Needle)

\* commit index.json if git status lists it
CommitIndex ==
    /\ pc = "IndexStatus"
    /\ indexDiffered' = (indexFile # head)
    /\ IF index_in_status(git_status(targetDir, indexFile, staged, head, tmp))
       THEN \E g \in GitOutcomes :
              /\ staged' = indexFile
              /\ head' = git_commit(g, head, staged')
              /\ changes' = Append(changes, IndexLabel)
              /\ commitFailed' = failed_commits(g, IndexLabel, commitFailed)
       ELSE UNCHANGED <<staged, head, changes, commitFailed>>
    /\ pc' = "idle"
    /\ UNCHANGED <<inputs, run, files, i, index_data, locals, disk, served,
                   provenance, outcome, fetched, step, atRunStart>>

Next ==
    \/ StartRun
    \/ FetchManifest
    \/ Validate
    \/ CompareVersion
    \/ ReturnUnchanged
    \/ Download
    \/ Hash
    \/ Persist
    \/ Record
    \/ Collect
    \/ Advance
    \/ WriteIndex
    \/ CommitIndex

Spec == Init /\ [][Next]_vars

\* successive runs against an environment that does not change
SpecRerun == InitPinned /\ [][Next]_vars

\* runs over every combination of per-plugin responses; the program is
\* sequential and each of its blocking calls returns (the requests carry
\* timeouts): a step that can be taken is taken
SpecLive == InitPinned /\ [][Next]_vars /\ WF_vars(Next)

TypeOK ==
    /\ pc \in PluginStates \cup {"idle", "Finalizing", "IndexStatus"}
    /\ run \in 0..MaxRuns
    /\ \A f \in FileNames : outcome[f] \in Fates

\* ------------------------------------------------------------------ claims
InPlugin == pc \in PluginStates

Range(q) == {q[k] : k \in 1..Len(q)}

\* the current plugin's manifest was fetched and names another plugin
Mismatched == InPlugin /\ Truthy(manifest) /\ manifest_name # source.name

\* the record file holds a record with this version
HasVersion(file, v) ==
    /\ file # None
    /\ file[1].ok
    /\ "version" \in DOMAIN file[1].data
    /\ file[1].data.version = v

\* C1: a plugin whose fetched manifest names another plugin than its source
\* file declares gets no further than the name check: no record file is
\* written, no change is recorded, nothing is returned for the index and
\* index_data is left as it was, whatever record exists.
C1_MismatchContributesNothing ==
    Mismatched =>
        /\ pc \in {"Validating", "Failed", "EndProcessing"}
        /\ ~step.wrote
        /\ ~step.downloaded
        /\ records = step.before
        /\ Len(changes) = step.nchanges
        /\ ret_manifest = None
        /\ index_data = step.index

\* C1 witness: a mismatched plugin has been processed to its end while a
\* record with another version than the fetched one exists for its name
C1_Witness ==
    /\ Mismatched
    /\ pc = "EndProcessing"
    /\ records[source.name] # None
    /\ records[source.name][1].ok
    /\ ~HasVersion(records[source.name], new_version)

\* the current plugin passed the name check and the record that existed when
\* its processing began has the fetched version
SameVersion ==
    /\ InPlugin
    /\ Truthy(manifest)
    /\ manifest_name = source.name
    /\ HasVersion(step.before[manifest_name], new_version)

\* C2: a plugin whose existing record has exactly the fetched version takes
\* the fast path: the artifact is not requested, the record file is not
\* written, no change is recorded, and its index entry is appended.
C2_UnchangedFastPath ==
    (SameVersion /\ pc \notin {"Fetching", "Validating"}) =>
        /\ pc \in {"ComparingVersion", "Unchanged", "Done", "EndProcessing"}
        /\ ~step.downloaded
        /\ ~step.wrote
        /\ records = step.before
        /\ Len(changes) = step.nchanges
        /\ pc \in {"Done", "EndProcessing"} => ret_manifest = manifest
        /\ pc = "EndProcessing" =>
              index_data = Append(step.index,
                                  [name |-> manifest_name,
                                   desc |-> Get(manifest[1], "description", ""),
                                   homepage |-> Get(manifest[1], "homepage", "")])

\* C2 witness: an unchanged plugin without description has reached the end of
\* its processing
C2_Witness ==
    /\ SameVersion
    /\ pc = "EndProcessing"
    /\ "description" \notin DOMAIN manifest[1]

\* C3: every record on disk carries the version fetched by the step that
\* wrote it and the digest of the complete body the artifact request of that
\* same step was served.
C3_DigestMatchesServedBytes ==
    \A n \in Names :
        (records[n] # None /\ records[n][1].ok) =>
            /\ provenance[n] # None
            /\ "sha256" \in DOMAIN records[n][1].data
            /\ records[n][1].data.sha256 = Digest(provenance[n][1].body)
            /\ records[n][1].data.version = provenance[n][1].version
            /\ records[n][1].data.name = n

\* C3 witness: a record has just been written from a body of several chunks
\* while another plugin's record is on disk
C3_Witness ==
    /\ InPlugin
    /\ step.wrote
    /\ served[1].body = <<1, 1>>
    /\ records[manifest_name] = Some(Json(manifest[1]))
    /\ \E n \in Names : n # manifest_name /\ records[n] # None /\ records[n][1].ok

AtRunEnd == pc = "idle" /\ run >= 1

SourceOf(f) == CHOOSE src \in source_dir : src.file = f

\* the manifest of source file f was fetched and carries the declared name
Matched(f) ==
    /\ Truthy(fetched[f])
    /\ "name" \in DOMAIN fetched[f][1]
    /\ fetched[f][1].name = SourceOf(f).name

\* the processing of source file f ran to a successful return
Completed(f) == outcome[f] \in {"unchanged", "updated"}

\* the entries of the source files that satisfy P, in file name order
EntriesWhere(P(_)) ==
    LET F[k \in 0..Len(LexOrder)] ==
          IF k = 0 THEN <<>>
          ELSE IF P(LexOrder[k])
               THEN Append(F[k - 1],
                           [name |-> fetched[LexOrder[k]][1].name,
                            desc |-> Get(fetched[LexOrder[k]][1], "description", ""),
                            homepage |-> Get(fetched[LexOrder[k]][1], "homepage", "")])
               ELSE F[k - 1]
    IN F[Len(LexOrder)]

\* C4 as stated: the written index has exactly one entry, in file name order,
\* for every source whose manifest was fetched and matched its name.
C4_OneEntryPerMatchedManifest ==
    AtRunEnd => indexFile = Some(EntriesWhere(Matched))

\* C4 amended: the written index has exactly one entry, in file name order,
\* for every source whose processing completed (manifest fetched, name
\* matched, and the version unchanged or the artifact downloaded and the
\* record written); a source that failed the fetch, the name check, the
\* artifact download or the record write has none.
C4_OneEntryPerCompletedSource ==
    AtRunEnd =>
        /\ indexFile = Some(EntriesWhere(Completed))
        /\ \A f \in FileNames :
              /\ Completed(f) => Matched(f)
              /\ (Matched(f) /\ ~Completed(f))
                    => outcome[f] \in {"download_failed", "io_failed"}
              /\ ~Matched(f) => outcome[f] \in {"fetch_failed", "mismatch"}

\* C4 witness: a run ended in which the first source was updated and the
\* second, with a matching manifest, failed its artifact download
C4_Witness ==
    /\ AtRunEnd
    /\ outcome["a.json"] = "updated"
    /\ Matched("b.json")
    /\ outcome["b.json"] = "download_failed"
    /\ Len(indexFile[1]) = 1

\* a run that followed another run has ended, both against the same pinned
\* responses
AtRerunEnd == pc = "idle" /\ run >= 2 /\ env # None

\* C5 as stated: after a second run against an unchanged environment every
\* record file and the index are what the first run left, and the second run
\* recorded no change for the index.
C5_RerunChangesNothing ==
    AtRerunEnd =>
        /\ records = atRunStart.records
        /\ indexFile = atRunStart.indexFile
        /\ IndexLabel \notin Range(changes)

\* no two source files declare the same plugin name
DistinctNames ==
    \A s1, s2 \in source_dir : s1.name = s2.name => s1 = s2

\* C5 amended: when the source files declare distinct names, after a second
\* run against an unchanged environment every record file and the index are
\* what the first run left, and the second run recorded no change for the
\* index unless the first run left the index different from its committed
\* state (its index commit failed).
C5_RerunChangesNothingOnceCommitted ==
    (AtRerunEnd /\ DistinctNames) =>
        /\ records = atRunStart.records
        /\ indexFile = atRunStart.indexFile
        /\ IndexLabel \in Range(changes)
              => atRunStart.indexFile # atRunStart.head

\* C5 witness: a second run ended that found a record and a committed index
\* of one entry, in the directory the commit check looks for, and recorded
\* nothing
C5_Witness ==
    /\ AtRerunEnd
    /\ DistinctNames
    /\ targetDir = "plugins"
    /\ atRunStart.indexFile = atRunStart.head
    /\ Len(indexFile[1]) = 1
    /\ \E n \in Names : records[n] # None /\ records[n][1].ok
    /\ changes = <<>>

\* what process_plugin does for one source file, from that file's pinned
\* responses and the record its name had when the run began, and from
\* nothing else: the return taken and the record file left
OwnOutcome(s, src, rec0) ==
    LET m == download_manifest(s.manifest) IN
    IF ~Truthy(m) THEN [fate |-> "fetch_failed", record |-> rec0]
    ELSE IF m[1].name # src.name THEN [fate |-> "mismatch", record |-> rec0]
    ELSE IF HasVersion(rec0, m[1].version)
         THEN [fate |-> "unchanged", record |-> rec0]
    ELSE IF s.artifact.status # "200" \/ s.artifact.delivered # Len(s.artifact.body)
         THEN [fate |-> "download_failed", record |-> rec0]
    ELSE IF s.write = "open" THEN [fate |-> "io_failed", record |-> rec0]
    ELSE IF s.write = "dump"
         THEN [fate |-> "io_failed", record |-> Some(Truncated)]
    ELSE [fate |-> "updated",
          record |-> Some(Json([sha256 |-> Digest(s.artifact.body)] @@ m[1]))]

OwnOutcomeOf(f) ==
    OwnOutcome(env[1][f], SourceOf(f), atRunStart.records[SourceOf(f).name])

OwnCompleted(f) == OwnOutcomeOf(f).fate \in {"unchanged", "updated"}

\* the number of changes recorded in this run under the update label of the
\* manifest pinned for source file f
UpdateChangesOf(f) ==
    LET m == download_manifest(env[1][f].manifest)[1] IN
    Cardinality({ k \in 1..Len(changes) :
                    changes[k] = m.name \o ": Update to version " \o m.version })

\* the batch ran to its end and each plugin fared as its own responses decide
BatchIsolation ==
    /\ \A f \in FileNames : outcome[f] # "pending"
    /\ indexFile = Some(index_data)
    /\ DistinctNames =>
         /\ \A f \in FileNames :
               /\ outcome[f] = OwnOutcomeOf(f).fate
               /\ records[SourceOf(f).name] = OwnOutcomeOf(f).record
               /\ OwnOutcomeOf(f).fate \notin {"fetch_failed", "mismatch"} =>
                     UpdateChangesOf(f) =
                        (IF OwnOutcomeOf(f).fate = "updated" THEN 1 ELSE 0)
         /\ indexFile = Some(EntriesWhere(OwnCompleted))
         /\ Len(changes) <= Cardinality({f \in FileNames : OwnOutcomeOf(f).fate = "updated"}) + 1

\* the run began with the index file, its staged and its committed content
\* all the same
CleanStart ==
    /\ atRunStart.indexFile = atRunStart.head
    /\ atRunStart.staged = atRunStart.head

Returned == pc \in {"Done", "Failed", "EndProcessing"}

\* C7: when a plugin's processing has ended, either it fully completed (a
\* record with the fetched version is on disk and it returned its manifest
\* for the index) or it contributed nothing (no record file differs from
\* what it was when the processing began and nothing is returned for the
\* index).
C7_NoPartialCredit ==
    Returned =>
        \/ /\ Truthy(ret_manifest)
           /\ HasVersion(records[manifest_name], new_version)
        \/ /\ ret_manifest = None
           /\ records = step.before

\* the artifact request of the current plugin did not deliver a complete body
DownloadFailed ==
    /\ InPlugin
    /\ served # None
    /\ served[1].status # "200" \/ served[1].delivered < Len(served[1].body)

\* C8: a plugin whose artifact download fails ends failed: no record file is
\* written, every record is what it was before, no change is recorded and
\* nothing is returned or appended for the index.
C8_DownloadFailureIsTerminal ==
    DownloadFailed =>
        /\ pc \in {"Failed", "EndProcessing"}
        /\ version_changed
        /\ ~step.wrote
        /\ records = step.before
        /\ Len(changes) = step.nchanges
        /\ ret_manifest = None
        /\ index_data = step.index

\* C8 witness: a plugin with a record of another version was processed to its
\* end after its artifact stream broke
C8_Witness ==
    /\ DownloadFailed
    /\ pc = "EndProcessing"
    /\ served[1].status = "200"
    /\ step.before[manifest_name] # None
    /\ step.before[manifest_name][1].ok

\* C9: while a plugin is processed at most one change is recorded; it is
\* recorded exactly when the plugin has returned from a record write, the
\* record is then on disk as written, and the label is "<name>: Update to
\* version <version>" of that record; a path that wrote no record recorded
\* no change.
C9_OneLabelledChangePerUpdate ==
    InPlugin =>
        /\ Len(changes) \in {step.nchanges, step.nchanges + 1}
        /\ (Len(changes) = step.nchanges + 1) <=> (step.wrote /\ Returned)
        /\ (Len(changes) = step.nchanges + 1) =>
              LET rec == records[manifest_name] IN
              /\ rec # None
              /\ rec[1].ok
              /\ rec[1].data = manifest[1]
              /\ changes[Len(changes)] =
                    rec[1].data.name \o ": Update to version " \o rec[1].data.version
              /\ rec[1].data.version = fetched[source.file][1].version
        /\ step.wrote => pc \in {"Recording", "Done", "EndProcessing"}

\* C9 witness: foo has been updated to version 1.0 and the change recorded
C9_Witness ==
    /\ pc = "Done"
    /\ step.wrote
    /\ Len(changes) = step.nchanges + 1
    /\ changes[Len(changes)] = "foo: Update to version 1.0"

\* C10: when a run has ended, a change labelled "Update plugin index" was
\* recorded if and only if the index file that was written differed from
\* its committed state.
C10_IndexCommittedIffDiffers ==
    AtRunEnd => ((IndexLabel \in Range(changes)) <=> indexDiffered)

\* check_version_changed has just returned for the current plugin
JustCompared == pc \in {"Unchanged", "Downloading"}

\* C11: check_version_changed returns changed when no record file exists for
\* the manifest's name, and with a record file it returns changed exactly
\* when the file does not hold the manifest's version string; no order of
\* versions is involved.
C11_ChangedIffVersionDiffers ==
    JustCompared =>
        LET file == records[manifest_name] IN
        /\ file = None => version_changed
        /\ file # None =>
              (version_changed <=>
                 ~(file[1].ok /\ Get(file[1].data, "version", "") = new_version))
        /\ (pc = "Downloading") <=> version_changed

\* C11 witness: a record of version 2.0 was compared with a manifest of
\* version 1.0 and reported as changed
C11_Witness ==
    /\ pc = "Downloading"
    /\ HasVersion(records[manifest_name], "2.0")
    /\ new_version = "1.0"
    /\ version_changed

\* the states of one plugin's processing, and the steps between them
ProcessingStates ==
    {"Fetching", "Validating", "ComparingVersion", "Unchanged", "Downloading",
     "Hashing", "Persisting", "Recording", "Done", "Failed"}

ProcessingEdges ==
    {<<"Fetching", "Validating">>, <<"Validating", "ComparingVersion">>,
     <<"ComparingVersion", "Unchanged">>, <<"ComparingVersion", "Downloading">>,
     <<"Unchanged", "Done">>, <<"Downloading", "Hashing">>,
     <<"Hashing", "Persisting">>, <<"Persisting", "Recording">>,
     <<"Recording", "Done">>}

\* process_plugin has returned a failure for the current source file
FailedPlugin ==
    /\ pc \in {"Failed", "EndProcessing"}
    /\ outcome[source.file] \in
         {"fetch_failed", "mismatch", "download_failed", "io_failed"}

\* one step of the plugin's processing follows the order of process_plugin,
\* and a failed plugin touches nothing any more
ProcessingStep ==
    /\ (pc' # pc /\ pc' \in ProcessingStates) =>
          \/ pc' = "Fetching" /\ pc \in {"idle", "EndProcessing"}
          \/ <<pc, pc'>> \in ProcessingEdges
          \/ pc' = "Failed" /\ pc \in ProcessingStates \ {"Done", "Failed"}
    /\ (pc' # pc /\ pc \in ProcessingStates /\ pc' \notin ProcessingStates) =>
          pc \in {"Done", "Failed"} /\ pc' = "EndProcessing"
    /\ FailedPlugin =>
          /\ records' = records
          /\ tmp' = tmp
          /\ changes' = changes
          /\ head' = head
          /\ staged' = staged

\* what has happened before each effect of the plugin's processing
ProcessingOrder ==
    InPlugin =>
        /\ step.downloaded =>
              /\ Truthy(manifest)
              /\ manifest_name = source.name
              /\ version_changed
              /\ ~HasVersion(step.before[manifest_name], new_version)
        /\ records # step.before =>
              /\ step.downloaded
              /\ "sha256" \in DOMAIN manifest[1]
              /\ manifest[1].sha256 = Digest(served[1].body)
        /\ pc \in {"Persisting", "Recording"} => "sha256" \in DOMAIN manifest[1]
        /\ Len(changes) > step.nchanges => step.wrote

\* C12: a plugin's processing moves only along Fetching, Validating,
\* ComparingVersion, then Unchanged or Downloading, Hashing, Persisting,
\* Recording, then Done, or to Failed from a state before Done; the artifact
\* is downloaded only after the name check and the version comparison passed,
\* the record is written only after the digest was computed, and after
\* Failed nothing is downloaded, written or recorded for that plugin.
C12_ProcessingOrder == []ProcessingOrder /\ [][ProcessingStep]_vars

\* C12 witness: a plugin failed while persisting, after the download and the
\* digest
C12_Witness ==
    /\ pc = "Failed"
    /\ step.downloaded
    /\ Truthy(manifest)
    /\ "sha256" \in DOMAIN manifest[1]

\* the index file holds an entry of this name
Listed(file, name) ==
    /\ file # None
    /\ \E k \in 1..Len(file[1]) : file[1][k].name = name

\* the loop over the source files has ended
LoopEnded == pc \in {"Finalizing", "IndexStatus"} \/ AtRunEnd

\* the index has been written in this run
IndexWritten == pc = "IndexStatus" \/ AtRunEnd

IndexWrittenOnceAtEnd ==
    /\ (run >= 1 /\ ~IndexWritten) => indexFile = atRunStart.indexFile
    /\ LoopEnded => \A f \in FileNames : outcome[f] # "pending"
    /\ IndexWritten =>
          /\ indexFile = Some(index_data)
          /\ index_data = EntriesWhere(Completed)
          /\ \A f \in FileNames :
                (\A g \in FileNames :
                    SourceOf(g).name = SourceOf(f).name => ~Completed(g))
                => ~Listed(indexFile, SourceOf(f).name)

\* the index file changes only in the step that follows the loop
IndexWriteStep ==
    indexFile' # indexFile =>
        /\ pc = "Finalizing"
        /\ pc' = "IndexStatus"
        /\ indexFile' = Some(index_data)

\* C13: the index file is written once per run, in the step after every
\* source file has been processed to success or failure, and what is written
\* replaces the file by exactly the entries collected in this run: a plugin
\* that failed in this run has no entry even if the previous index listed it
\* and its record file is still there.
C13_IndexWrittenOnceAtEnd == []IndexWrittenOnceAtEnd /\ [][IndexWriteStep]_vars

\* C13 witness: a run ended in which a plugin failed whose entry the previous
\* index listed and whose record file remains
C13_Witness ==
    /\ AtRunEnd
    /\ \E f \in FileNames :
         /\ ~Completed(f)
         /\ Listed(atRunStart.indexFile, SourceOf(f).name)
         /\ ~Listed(indexFile, SourceOf(f).name)
         /\ records[SourceOf(f).name] # None
         /\ records[SourceOf(f).name][1].ok

\* C14: whenever the processing of a plugin begins and whenever it has ended,
\* by success or by any failure, the temporary artifact file does not exist.
C14_TmpAbsentBetweenPlugins ==
    pc \in {"Fetching", "Done", "Failed", "EndProcessing"} => tmp = None

\* git refused the commit of the record the current plugin has written
PluginCommitFailed ==
    /\ InPlugin
    /\ step.wrote
    /\ pc \in {"Done", "EndProcessing"}
    /\ PluginLabel(manifest_name, new_version) \in commitFailed

\* C15: a commit that git refuses, for a plugin's record or for the index, is
\* not a failure of the plugin or of the run: the record written stays as
\* written, the plugin returns its manifest and gets its index entry, every
\* source file is still processed and the index is still written.
C15_CommitFailureNotEscalated ==
    /\ PluginCommitFailed =>
          /\ records[manifest_name] = Some(Json(manifest[1]))
          /\ ret_manifest = manifest
          /\ outcome[source.file] = "updated"
          /\ pc = "EndProcessing" =>
                index_data = Append(step.index, IndexEntry(manifest[1]))
    /\ (AtRunEnd /\ commitFailed # {}) =>
          /\ \A f \in FileNames : outcome[f] # "pending"
          /\ indexFile = Some(index_data)
          /\ index_data = EntriesWhere(Completed)
          /\ \A f \in FileNames :
                (/\ outcome[f] = "updated"
                 /\ PluginLabel(fetched[f][1].name, fetched[f][1].version)
                      \in commitFailed)
                => Listed(indexFile, fetched[f][1].name)

\* C15 witness: a run ended in which git refused the commit of the first
\* plugin's record and the commit of the index
C15_Witness ==
    /\ AtRunEnd
    /\ IndexLabel \in commitFailed
    /\ outcome["a.json"] = "updated"
    /\ PluginLabel(fetched["a.json"][1].name, fetched["a.json"][1].version)
         \in commitFailed
    /\ Listed(indexFile, fetched["a.json"][1].name)
    /\ outcome["b.json"] = "updated"

\* process_plugin has not yet returned for the current source file
Processing == InPlugin /\ ~Returned

\* the loop walks the source files in file name order, one at a time
InFileOrder ==
    /\ run >= 1 =>
          /\ Len(files) = Cardinality(source_dir)
          /\ \A k \in 1..Len(files) : files[k].file = LexOrder[k]
    /\ InPlugin =>
          /\ i \in 1..Len(files)
          /\ \A k \in 1..Len(files) :
                /\ k < i => outcome[files[k].file] # "pending"
                /\ k > i => outcome[files[k].file] = "pending"
          /\ Processing <=> outcome[source.file] = "pending"
    /\ LoopEnded =>
          /\ i = Len(files) + 1
          /\ \A f \in FileNames : outcome[f] # "pending"

\* within a run the loop position moves by one, and a source file that has
\* been processed is not processed again
OneAtATime ==
    run' = run =>
        /\ i' \in {i, i + 1}
        /\ \A f \in FileNames : outcome[f] # "pending" => outcome'[f] = outcome[f]

\* C16: whatever the source files and whatever each plugin's outcome, a run
\* processes every source file once, in file name order, none skipped and
\* none twice, then writes the index and ends.
C16_EveryRunCompletes ==
    /\ []InFileOrder
    /\ [][OneAtATime]_vars
    /\ (pc # "idle") ~> (IndexWritten /\ pc = "idle")

\* C16 witness: a run ended after a failed first plugin and an updated
\* second one
C16_Witness ==
    /\ AtRunEnd
    /\ outcome["a.json"] = "download_failed"
    /\ outcome["b.json"] = "updated"
    /\ i = Len(files) + 1

\* the index lists the plugin of source file f, and the record file of that
\* name holds the version fetched for f in this run
EntryHasMatchingRecord(f) ==
    /\ Listed(indexFile, fetched[f][1].name)
    /\ HasVersion(records[fetched[f][1].name], fetched[f][1].version)

\* C17 as stated: at the end of a run every index entry has a record file of
\* the same name whose version is the version fetched for that entry in this
\* run.
C17_EntriesHaveMatchingRecords ==
    AtRunEnd => \A f \in FileNames : Completed(f) => EntryHasMatchingRecord(f)

\* C17 amended: when the source files declare distinct names, at the end of a
\* run every index entry has a record file of the same name whose version is
\* the version fetched for that entry in this run.
C17_EntriesHaveMatchingRecordsDistinctNames ==
    (AtRunEnd /\ DistinctNames) =>
        \A f \in FileNames : Completed(f) => EntryHasMatchingRecord(f)

\* C17 witness: a run over distinct names ended with an unchanged and an
\* updated plugin, both listed
C17_Witness ==
    /\ AtRunEnd
    /\ DistinctNames
    /\ outcome["a.json"] = "unchanged"
    /\ outcome["b.json"] = "updated"
    /\ Len(indexFile[1]) = 2

\* C18: whenever the digest is about to be computed, the temporary file holds
\* exactly the complete body of the artifact response the current plugin
\* received, whatever an earlier failed download left in the file.
C18_DigestInputIsOwnArtifact ==
    pc = "Hashing" =>
        /\ served # None
        /\ served[1].status = "200"
        /\ served[1].delivered = Len(served[1].body)
        /\ tmp = Some(served[1].body)

\* C18 witness: the second plugin is about to hash its two-chunk artifact
\* after the first plugin's download broke and left one chunk in the file
C18_Witness ==
    /\ pc = "Hashing"
    /\ i = 2
    /\ outcome["a.json"] = "download_failed"
    /\ env # None
    /\ env[1]["a.json"].artifact.status = "200"
    /\ env[1]["a.json"].artifact.delivered = 1
    /\ Len(tmp[1]) = 2

\* the current plugin passed the name check and was compared with a record
\* file that exists but cannot be read
UnreadableRecord ==
    /\ InPlugin
    /\ Truthy(manifest)
    /\ manifest_name = source.name
    /\ pc \notin {"Fetching", "Validating", "ComparingVersion"}
    /\ step.before[manifest_name] = Some(Truncated)

\* the current plugin's artifact download succeeded
DownloadSucceeded ==
    /\ served # None
    /\ served[1].status = "200"
    /\ served[1].delivered = Len(served[1].body)

\* the record file holds the complete record of the current manifest and one
\* change was recorded for it
RecordReplaced ==
    /\ "sha256" \in DOMAIN manifest[1]
    /\ records[manifest_name] = Some(Json(manifest[1]))
    /\ Len(changes) = step.nchanges + 1
    /\ changes[Len(changes)] = PluginLabel(manifest_name, new_version)

\* C19 as stated: a plugin whose record file exists but cannot be read is
\* reported as changed and takes the update path, and once its download has
\* succeeded and process_plugin has returned, the record file holds a
\* complete new record and one change was recorded.
C19_UnreadableRecordReplaced ==
    UnreadableRecord =>
        /\ version_changed
        /\ pc # "Unchanged"
        /\ (Returned /\ DownloadSucceeded) => RecordReplaced

\* C19 amended: a plugin whose record file exists but cannot be read is
\* reported as changed and takes the update path, and once its download and
\* the write of its record have succeeded and process_plugin has returned,
\* the record file holds a complete new record and one change was recorded.
C19_UnreadableRecordReplacedOnWrite ==
    UnreadableRecord =>
        /\ version_changed
        /\ pc # "Unchanged"
        /\ outcome[source.file] # "unchanged"
        /\ (Returned /\ DownloadSucceeded /\ pc # "Failed"
              /\ outcome[source.file] # "io_failed") => RecordReplaced

\* C19 witness: a plugin with an unreadable record has returned after a
\* successful download and write
C19_Witness ==
    /\ UnreadableRecord
    /\ Returned
    /\ DownloadSucceeded
    /\ outcome[source.file] = "updated"
    /\ RecordReplaced

====
